---- MODULE Spec2Model ----
(***************************************************************************)
(* Model of src/main.py: the HandVisualizer class (colour tables, skeleton *)
(* connection table, set_color_scheme, set_line_thickness,                 *)
(* _get_finger_color, process_frame) and the capture loop of main().       *)
(*                                                                         *)
(* A landmark coordinate is the rational k/Den, stored as its numerator k. *)
(* A frame is its shape (w, h) plus a mirrored flag; what process_frame    *)
(* draws on it is the sequence ops of cv2.line / cv2.circle calls.         *)
(***************************************************************************)
EXTENDS Integers, Sequences, FiniteSets, TLC

VARIABLES pc, color_scheme, line_thickness, cap_released, frame, hands, ops,
          key, call, last_recognized, fault

vars == <<pc, color_scheme, line_thickness, cap_released, frame, hands, ops,
          key, call, last_recognized, fault>>

(* ---------------------------- bounds ----------------------------------- *)
MaxW == 3          \* frame widths 1..MaxW
MaxH == 2          \* frame heights 1..MaxH
Den == 4           \* landmark coordinates are k/Den, k in 0..Den
MaxSeed == 1       \* the detector's landmark patterns 0..MaxSeed
PairShortLen == 10 \* length of the short hand used in two-hand results
MaxArg == 7        \* arguments of direct method calls reach MaxArg past the valid range

(* ------------------------ program constants ---------------------------- *)
max_hands == 2
NumLandmarks == 21
point_size == 7
InitThickness == 2
KeyMask == 256
KeyQ == 113
Key1 == 49
Key2 == 50
Key3 == 51
KeyPlus == 43
KeyMinus == 45

White == <<255, 255, 255>>

COLOR_SCHEMES ==
  [vibrant |-> << <<0, 255, 255>>, <<255, 0, 0>>, <<0, 255, 0>>,
                  <<255, 0, 255>>, <<0, 165, 255>> >>,
   pastel  |-> << <<180, 255, 255>>, <<255, 180, 180>>, <<180, 255, 180>>,
                  <<255, 180, 255>>, <<180, 200, 255>> >>,
   mono    |-> << <<200, 200, 200>>, <<150, 150, 150>>, <<100, 100, 100>>,
                  <<200, 200, 200>>, <<150, 150, 150>> >>]

CONNECTIONS ==
  << <<1, 2>>, <<2, 3>>, <<3, 4>>,
     <<5, 6>>, <<6, 7>>, <<7, 8>>,
     <<9, 10>>, <<10, 11>>, <<11, 12>>,
     <<13, 14>>, <<14, 15>>, <<15, 16>>,
     <<17, 18>>, <<18, 19>>, <<19, 20>>,
     <<0, 1>>, <<0, 5>>, <<0, 9>>, <<0, 13>>, <<0, 17>>,
     <<1, 5>>, <<5, 9>>, <<9, 13>>, <<13, 17>> >>

(* ------------------------ HandVisualizer ------------------------------- *)
Min(a, b) == IF a < b THEN a ELSE b
Max(a, b) == IF a > b THEN a ELSE b

set_color_scheme_unguarded(self_scheme, scheme_name) == scheme_name

\* lines 62-65: the assignment happens only for a key of COLOR_SCHEMES
set_color_scheme(self_scheme, scheme_name) ==
  IF scheme_name \in DOMAIN COLOR_SCHEMES THEN scheme_name ELSE self_scheme

set_line_thickness_no_floor(thickness) == Min(thickness, 5)

\* lines 67-69: max(1, min(thickness, 5))
set_line_thickness(thickness) == Max(1, Min(thickness, 5))

get_finger_color_off_by_one(start_idx, scheme) ==
  LET colors == COLOR_SCHEMES[scheme] IN
  IF 1 <= start_idx /\ start_idx <= 4 THEN colors[1]
  ELSE IF 5 <= start_idx /\ start_idx <= 9 THEN colors[2]
  ELSE IF 10 <= start_idx /\ start_idx <= 12 THEN colors[3]
  ELSE IF 13 <= start_idx /\ start_idx <= 16 THEN colors[4]
  ELSE IF 17 <= start_idx /\ start_idx <= 20 THEN colors[5]
  ELSE White

\* lines 71-86; colors[0..4] of the source are colors[1..5] here
get_finger_color(start_idx, scheme) ==
  LET colors == COLOR_SCHEMES[scheme] IN
  IF 1 <= start_idx /\ start_idx <= 4 THEN colors[1]
  ELSE IF 5 <= start_idx /\ start_idx <= 8 THEN colors[2]
  ELSE IF 9 <= start_idx /\ start_idx <= 12 THEN colors[3]
  ELSE IF 13 <= start_idx /\ start_idx <= 16 THEN colors[4]
  ELSE IF 17 <= start_idx /\ start_idx <= 20 THEN colors[5]
  ELSE White

ToPixelRounded(k, dim) == (2 * k * dim + Den) \div (2 * Den)

\* lines 108-111, 121-122: int(landmark.x * w); int() truncates toward zero,
\* and k * dim >= 0 here
ToPixel(k, dim) == (k * dim) \div Den

BoundOkStartOnly(start_idx, end_idx, n) == start_idx < n

\* line 106
BoundOk(start_idx, end_idx, n) == start_idx < n /\ end_idx < n

LineColorByEnd(start_idx, end_idx, scheme) == get_finger_color(end_idx, scheme)

\* line 114
LineColor(start_idx, end_idx, scheme) == get_finger_color(start_idx, scheme)

\* hand_landmarks[i]: an index past the end raises IndexError
InRange(hand, i) == 0 <= i /\ i < Len(hand)

\* lines 108-117: one cv2.line call, or the IndexError of a bad subscript
LineOp(hi, hand, c, w, h, scheme, thickness) ==
  IF InRange(hand, c[1]) /\ InRange(hand, c[2])
  THEN [kind |-> "line", hand |-> hi, start |-> c[1], end |-> c[2],
        p1 |-> <<ToPixel(hand[c[1] + 1].x, w), ToPixel(hand[c[1] + 1].y, h)>>,
        p2 |-> <<ToPixel(hand[c[2] + 1].x, w), ToPixel(hand[c[2] + 1].y, h)>>,
        color |-> LineColor(c[1], c[2], scheme), thickness |-> thickness]
  ELSE [kind |-> "IndexError", hand |-> hi]

\* lines 120-127: one cv2.circle call
CircleOp(hi, idx, landmark, w, h, scheme) ==
  [kind |-> "circle", hand |-> hi, idx |-> idx,
   p |-> <<ToPixel(landmark.x, w), ToPixel(landmark.y, h)>>,
   radius |-> point_size, color |-> get_finger_color(idx, scheme),
   fill |-> 0 - 1]

\* lines 105-117
HandLines(hi, hand, w, h, scheme, thickness) ==
  LET Keep(c) == BoundOk(c[1], c[2], Len(hand))
      sel == SelectSeq(CONNECTIONS, Keep)
  IN [j \in 1..Len(sel) |-> LineOp(hi, hand, sel[j], w, h, scheme, thickness)]

\* lines 120-127
HandCircles(hi, hand, w, h, scheme) ==
  [j \in 1..Len(hand) |-> CircleOp(hi, j - 1, hand[j], w, h, scheme)]

DrawHandCirclesFirst(hi, hand, w, h, scheme, thickness) ==
  HandCircles(hi, hand, w, h, scheme) \o HandLines(hi, hand, w, h, scheme, thickness)

\* lines 104-127: the body of the loop over hands
DrawHand(hi, hand, w, h, scheme, thickness) ==
  HandLines(hi, hand, w, h, scheme, thickness) \o HandCircles(hi, hand, w, h, scheme)

RECURSIVE DrawHands(_, _, _, _, _, _)
\* line 103: for hand_landmarks in result.hand_landmarks, from hand number hi on
DrawHands(hs, hi, w, h, scheme, thickness) ==
  IF hi > Len(hs) THEN <<>>
  ELSE DrawHand(hi, hs[hi], w, h, scheme, thickness)
         \o DrawHands(hs, hi + 1, w, h, scheme, thickness)

\* the draw calls made before the first exception, and whether one was raised
process_frame(hs, w, h, scheme, thickness) ==
  IF hs = <<>> THEN [ops |-> <<>>, err |-> FALSE]
  ELSE LET all == DrawHands(hs, 1, w, h, scheme, thickness)
           bad == {j \in 1..Len(all) : all[j].kind = "IndexError"}
       IN IF bad = {} THEN [ops |-> all, err |-> FALSE]
          ELSE LET first == CHOOSE j \in bad : \A k \in bad : j <= k
               IN [ops |-> SubSeq(all, 1, first - 1), err |-> TRUE]

(* -------------------- the detector and the camera ---------------------- *)
NoFrame == [w |-> 0, h |-> 0, mirrored |-> FALSE]
NoKey == 0 - 2
NoCall == [op |-> "none", arg |-> 0, pre |-> 0, ret |-> <<>>, from |-> "none"]

MkHand(n, seed) ==
  [i \in 1..n |-> [x |-> ((i - 1) + seed) % (Den + 1),
                   y |-> (2 * (i - 1) + seed) % (Den + 1)]]

SingleHands == {MkHand(n, s) : n \in 1..NumLandmarks, s \in 0..MaxSeed}
PairHands == {MkHand(n, s) : n \in {PairShortLen, NumLandmarks}, s \in 0..MaxSeed}

\* what detector.detect can return: at most max_hands hands
DetectorResults ==
  {<<>>} \cup {<<a>> : a \in SingleHands}
         \cup {<<a, b>> : a \in PairHands, b \in PairHands}

Frames == {[w |-> w, h |-> h, mirrored |-> FALSE] : w \in 1..MaxW, h \in 1..MaxH}

\* cv2.waitKey(1): -1 when no key is pressed, else a key code, which may
\* carry bits above the low byte
RawKeys == {0 - 1, KeyQ, Key1, Key2, Key3, KeyPlus, KeyMinus, 97, KeyMask + Key3}

Running == {"read", "flip", "detect", "render", "show", "poll"}

(* ------------------------------ main() --------------------------------- *)
Init ==
  /\ pc = "read"
  /\ color_scheme = "vibrant"
  /\ line_thickness = InitThickness
  /\ cap_released = 0
  /\ frame = NoFrame
  /\ hands = <<>>
  /\ ops = <<>>
  /\ key = NoKey
  /\ call = NoCall
  /\ last_recognized = "vibrant"
  /\ fault = "none"

\* lines 151-153; the locals of the previous iteration are dead from here
Read ==
  /\ pc = "read"
  /\ \/ /\ \E f \in Frames : frame' = f
        /\ pc' = "flip"
     \/ /\ frame' = NoFrame
        /\ pc' = "stopped"
  /\ hands' = <<>>
  /\ ops' = <<>>
  /\ key' = NoKey
  /\ call' = NoCall
  /\ UNCHANGED <<color_scheme, line_thickness, cap_released, last_recognized, fault>>

\* line 156
Flip ==
  /\ pc = "flip"
  /\ frame' = [frame EXCEPT !.mirrored = TRUE]
  /\ pc' = "detect"
  /\ UNCHANGED <<color_scheme, line_thickness, cap_released, hands, ops, key,
                 call, last_recognized, fault>>

\* lines 159, 91-95
Detect ==
  /\ pc = "detect"
  /\ \E r \in DetectorResults : hands' = r
  /\ pc' = "render"
  /\ UNCHANGED <<color_scheme, line_thickness, cap_released, frame, ops, key,
                 call, last_recognized, fault>>

\* lines 97-129
Render ==
  /\ pc = "render"
  /\ LET r == process_frame(hands, frame.w, frame.h, color_scheme, line_thickness)
     IN /\ ops' = r.ops
        /\ pc' = IF r.err THEN "crashed" ELSE "show"
        /\ fault' = IF r.err THEN "IndexError" ELSE fault
  /\ UNCHANGED <<color_scheme, line_thickness, cap_released, frame, hands, key,
                 call, last_recognized>>

\* line 162; the frame and the detection result are not read again
Show ==
  /\ pc = "show"
  /\ pc' = "poll"
  /\ frame' = NoFrame
  /\ hands' = <<>>
  /\ ops' = <<>>
  /\ UNCHANGED <<color_scheme, line_thickness, cap_released, key, call,
                 last_recognized, fault>>

HandleKeySchemeSwapped(k, scheme) ==
  IF k = Key1 THEN set_color_scheme(scheme, "vibrant")
  ELSE IF k = Key2 THEN set_color_scheme(scheme, "mono")
  ELSE IF k = Key3 THEN set_color_scheme(scheme, "pastel")
  ELSE scheme

\* lines 169-177
HandleKeyScheme(k, scheme) ==
  IF k = Key1 THEN set_color_scheme(scheme, "vibrant")
  ELSE IF k = Key2 THEN set_color_scheme(scheme, "pastel")
  ELSE IF k = Key3 THEN set_color_scheme(scheme, "mono")
  ELSE scheme

\* lines 178-183
HandleKeyThickness(k, thickness) ==
  IF k = KeyPlus THEN set_line_thickness(thickness + 1)
  ELSE IF k = KeyMinus THEN set_line_thickness(thickness - 1)
  ELSE thickness

\* the method call a key makes, if any
KeyCall(k, thickness) ==
  IF k = Key1 THEN [op |-> "set_color_scheme", arg |-> "vibrant", pre |-> 0, ret |-> <<>>, from |-> "key"]
  ELSE IF k = Key2 THEN [op |-> "set_color_scheme", arg |-> "pastel", pre |-> 0, ret |-> <<>>, from |-> "key"]
  ELSE IF k = Key3 THEN [op |-> "set_color_scheme", arg |-> "mono", pre |-> 0, ret |-> <<>>, from |-> "key"]
  ELSE IF k = KeyPlus THEN [op |-> "set_line_thickness", arg |-> thickness + 1, pre |-> thickness, ret |-> <<>>, from |-> "key"]
  ELSE IF k = KeyMinus THEN [op |-> "set_line_thickness", arg |-> thickness - 1, pre |-> thickness, ret |-> <<>>, from |-> "key"]
  ELSE NoCall

Recognized(name) == name \in {"vibrant", "pastel", "mono"}

\* lines 165-183
PollKey ==
  /\ pc = "poll"
  /\ \E raw \in RawKeys :
       LET k == raw % KeyMask IN
       /\ key' = k
       /\ pc' = IF k = KeyQ THEN "stopped" ELSE "read"
       /\ color_scheme' = IF k = KeyQ THEN color_scheme ELSE HandleKeyScheme(k, color_scheme)
       /\ line_thickness' = IF k = KeyQ THEN line_thickness ELSE HandleKeyThickness(k, line_thickness)
       /\ call' = IF k = KeyQ THEN NoCall ELSE KeyCall(k, line_thickness)
       /\ last_recognized' =
            IF k \in {Key1, Key2, Key3} /\ Recognized(KeyCall(k, line_thickness).arg)
            THEN KeyCall(k, line_thickness).arg ELSE last_recognized
  /\ UNCHANGED <<cap_released, frame, hands, ops, fault>>

\* lines 185-186
Release ==
  /\ pc = "stopped"
  /\ cap_released' = cap_released + 1
  /\ pc' = "done"
  /\ UNCHANGED <<color_scheme, line_thickness, frame, hands, ops, key, call,
                 last_recognized, fault>>

\* lines 150-183 have no try/finally: an exception raised by the detector
\* (line 95), by a cv2 drawing call (lines 117, 127) or by cv2.imshow
\* (line 162) propagates out of main() and lines 185-186 are not executed
Raise ==
  /\ pc \in {"detect", "render", "show"}
  /\ pc' = "crashed"
  /\ fault' = "external"
  /\ UNCHANGED <<color_scheme, line_thickness, cap_released, frame, hands, ops,
                 key, call, last_recognized>>

Next == Read \/ Flip \/ Detect \/ Render \/ Show \/ PollKey \/ Release \/ Raise

Spec == Init /\ [][Next]_vars

(* ---------- the class driven by main() and by direct calls ------------- *)
SchemeArgs == {"vibrant", "pastel", "mono", "neon", "", "Vibrant"}
ThicknessArgs == (0 - MaxArg)..(5 + MaxArg)
IndexArgs == (0 - MaxArg)..(NumLandmarks - 1 + MaxArg)

\* set_color_scheme(name) called directly, between two iterations
CallSetColorScheme ==
  /\ pc = "read"
  /\ \E name \in SchemeArgs :
       /\ color_scheme' = set_color_scheme(color_scheme, name)
       /\ call' = [op |-> "set_color_scheme", arg |-> name, pre |-> 0,
                   ret |-> <<>>, from |-> "client"]
       /\ last_recognized' = IF Recognized(name) THEN name ELSE last_recognized
  /\ UNCHANGED <<pc, line_thickness, cap_released, frame, hands, ops, key, fault>>

\* set_line_thickness(v) called directly
CallSetLineThickness ==
  /\ pc = "read"
  /\ \E v \in ThicknessArgs :
       /\ line_thickness' = set_line_thickness(v)
       /\ call' = [op |-> "set_line_thickness", arg |-> v, pre |-> line_thickness,
                   ret |-> <<>>, from |-> "client"]
  /\ UNCHANGED <<pc, color_scheme, cap_released, frame, hands, ops, key,
                 last_recognized, fault>>

\* _get_finger_color(idx) called directly
CallGetFingerColor ==
  /\ pc = "read"
  /\ \E idx \in IndexArgs :
       call' = [op |-> "_get_finger_color", arg |-> idx, pre |-> 0,
                ret |-> get_finger_color(idx, color_scheme), from |-> "client"]
  /\ UNCHANGED <<pc, color_scheme, line_thickness, cap_released, frame, hands,
                 ops, key, last_recognized, fault>>

ApiNext == Next \/ CallSetColorScheme \/ CallSetLineThickness \/ CallGetFingerColor

ApiSpec == Init /\ [][ApiNext]_vars

TypeOK ==
  /\ pc \in Running \cup {"stopped", "done", "crashed"}
  /\ color_scheme \in STRING
  /\ line_thickness \in Int
  /\ cap_released \in Nat
  /\ Len(hands) <= max_hands
  /\ fault \in {"none", "external", "IndexError"}

(* ============================ properties =============================== *)
SchemeNames == {"vibrant", "pastel", "mono"}
Range(f) == {f[i] : i \in DOMAIN f}
Abs(n) == IF n < 0 THEN 0 - n ELSE n

(* C1: whenever the capture loop ends, by the quit key, a failed read or a *)
(* failure raised during an iteration, the camera is released exactly      *)
(* once; it is never released while the loop runs and never left           *)
(* unreleased once main() is over.                                         *)
C1_ReleasedExactlyOnce ==
  /\ cap_released <= 1
  /\ pc \in Running => cap_released = 0
  /\ pc \in {"done", "crashed"} => cap_released = 1

ClampedTo(v) == IF v <= 0 THEN 1 ELSE IF v >= 5 THEN 5 ELSE v

C2_ThicknessState ==
  /\ line_thickness \in 1..5
  /\ call.op = "set_line_thickness" => line_thickness = ClampedTo(call.arg)
  /\ (call.op = "set_line_thickness" /\ call.from = "key") =>
        /\ key \in {KeyPlus, KeyMinus}
        /\ key = KeyPlus => call.arg = call.pre + 1
        /\ key = KeyMinus => call.arg = call.pre - 1
        /\ (key = KeyPlus /\ call.pre = 5) => line_thickness = 5
        /\ (key = KeyMinus /\ call.pre = 1) => line_thickness = 1

(* C2: line thickness starts at 2 and is in 1..5 in every reachable state; *)
(* set_line_thickness(v) gives 1 for v <= 0, 5 for v >= 5 and v otherwise; *)
(* '+' and '-' call it with the current thickness plus or minus 1, '+' at  *)
(* 5 leaves 5 and '-' at 1 leaves 1.                                       *)
C2_ThicknessClamped == line_thickness = 2 /\ []C2_ThicknessState

C2_Witness ==
  /\ call.op = "set_line_thickness" /\ call.from = "key"
  /\ key = KeyPlus /\ call.pre = 5 /\ line_thickness = 5

C3_SchemeState ==
  /\ color_scheme \in SchemeNames
  /\ color_scheme = last_recognized
  /\ call.op = "set_color_scheme" =>
        /\ call.arg \in SchemeNames => color_scheme = call.arg
        /\ pc = "read" /\ fault = "none"

(* C3: the active scheme starts as 'vibrant' and is always one of          *)
(* vibrant, pastel, mono; set_color_scheme with a recognized name makes it *)
(* active, with any other name changes nothing and raises nothing, so the  *)
(* active scheme is the last recognized name passed.                       *)
C3_SchemeRecognized == color_scheme = "vibrant" /\ []C3_SchemeState

C3_Witness ==
  /\ call.op = "set_color_scheme" /\ call.arg = "neon" /\ call.from = "client"
  /\ color_scheme = "mono"

GroupColor(idx, scheme) ==
  IF idx \in 1..20 THEN COLOR_SCHEMES[scheme][((idx - 1) \div 4) + 1]
  ELSE <<255, 255, 255>>

(* C4: _get_finger_color is total over the integers: 1-4 give scheme entry *)
(* 0, 5-8 entry 1, 9-12 entry 2, 13-16 entry 3, 17-20 entry 4; 0, every    *)
(* index >= 21 and every negative index give (255,255,255) under every     *)
(* scheme; each of the three schemes has a colour for all five fingers.    *)
C4_FingerColor ==
  /\ DOMAIN COLOR_SCHEMES = SchemeNames
  /\ \A s \in SchemeNames : DOMAIN COLOR_SCHEMES[s] = 1..5
  /\ call.op = "_get_finger_color" =>
        /\ call.ret = GroupColor(call.arg, color_scheme)
        /\ (call.arg <= 0 \/ call.arg >= 21) => call.ret = <<255, 255, 255>>

C4_Witness ==
  /\ call.op = "_get_finger_color" /\ call.arg = 17
  /\ color_scheme = "pastel" /\ call.ret = <<180, 200, 255>>

LinesOf(hi) ==
  LET T(op) == op.kind = "line" /\ op.hand = hi IN SelectSeq(ops, T)
CirclesOf(hi) ==
  LET T(op) == op.kind = "circle" /\ op.hand = hi IN SelectSeq(ops, T)

ShortHandDrawn(hi) ==
  LET n == Len(hands[hi])
      lines == LinesOf(hi)
      circles == CirclesOf(hi)
      want == {c \in Range(CONNECTIONS) : c[1] < n /\ c[2] < n}
  IN /\ {<<lines[j].start, lines[j].end>> : j \in 1..Len(lines)} = want
     /\ Len(lines) = Cardinality(want)
     /\ Len(circles) = n
     /\ {circles[j].idx : j \in 1..n} = 0..(n - 1)

(* C5: for a hand with n landmarks, 0 < n < 21, process_frame draws a line *)
(* for exactly the table entries with both indices below n, draws exactly  *)
(* n markers and raises no error.                                          *)
C5_ShortHand ==
  /\ fault # "IndexError"
  /\ pc = "show" =>
       \A hi \in 1..Len(hands) :
          Len(hands[hi]) < NumLandmarks => ShortHandDrawn(hi)

C5_Witness ==
  /\ pc = "show"
  /\ \E hi \in 1..Len(hands) :
        /\ Len(hands[hi]) = 10
        /\ Len(LinesOf(hi)) = 11
        /\ Len(CirclesOf(hi)) = 10

TableEntry(j) ==
  IF j <= 15 THEN <<4 * ((j - 1) \div 3) + 1 + ((j - 1) % 3),
                    4 * ((j - 1) \div 3) + 2 + ((j - 1) % 3)>>
  ELSE IF j <= 20 THEN <<0, 4 * (j - 16) + 1>>
  ELSE <<4 * (j - 21) + 1, 4 * (j - 21) + 5>>

FullHandDrawn(hi) ==
  LET base == 45 * (hi - 1) IN
  /\ \A j \in 1..24 :
        /\ ops[base + j].kind = "line"
        /\ ops[base + j].hand = hi
        /\ <<ops[base + j].start, ops[base + j].end>> = TableEntry(j)
  /\ \A j \in 25..45 :
        /\ ops[base + j].kind = "circle"
        /\ ops[base + j].hand = hi
        /\ ops[base + j].idx = j - 25
        /\ ops[base + j].radius = 7
        /\ ops[base + j].fill < 0

(* C6: for a list of 21-landmark hands the draw calls come hand by hand in *)
(* detector order, per hand the 24 lines in table order followed by the 21 *)
(* filled radius-7 markers of indices 0..20; for an empty list nothing is  *)
(* drawn.                                                                  *)
C6_DrawOrder ==
  pc = "show" =>
    /\ \A i \in 1..Len(ops) : \A j \in 1..Len(ops) :
          i < j => /\ ops[i].hand <= ops[j].hand
                   /\ (ops[i].hand = ops[j].hand /\ ops[i].kind = "circle")
                         => ops[j].kind = "circle"
    /\ (\A hi \in 1..Len(hands) : Len(hands[hi]) = NumLandmarks) =>
          /\ Len(ops) = 45 * Len(hands)
          /\ \A hi \in 1..Len(hands) : FullHandDrawn(hi)
    /\ hands = <<>> => ops = <<>>

C6_Witness ==
  /\ pc = "show" /\ Len(hands) = 2 /\ Len(ops) = 90
  /\ Len(hands[1]) = NumLandmarks /\ Len(hands[2]) = NumLandmarks
  /\ ops[24].kind = "line" /\ ops[25].kind = "circle"
  /\ ops[45].hand = 1 /\ ops[46].hand = 2

(* C7: every line of a connection (start,end) has the colour of the finger *)
(* group of start under the active scheme, whatever end is: the wrist      *)
(* edges are white under every scheme, the edges (1,5),(5,9),(9,13),       *)
(* (13,17) take the thumb, index, middle and ring colours; the line has    *)
(* the configured thickness.                                               *)
C7_LineColor ==
  pc = "show" =>
    \A j \in 1..Len(ops) :
       ops[j].kind = "line" =>
          /\ ops[j].color = GroupColor(ops[j].start, color_scheme)
          /\ ops[j].start = 0 => ops[j].color = <<255, 255, 255>>
          /\ \A f \in 0..3 :
                (ops[j].start = 4 * f + 1 /\ ops[j].end = 4 * f + 5)
                   => ops[j].color = COLOR_SCHEMES[color_scheme][f + 1]
          /\ ops[j].thickness = line_thickness

C7_Witness ==
  /\ pc = "show" /\ color_scheme = "mono" /\ line_thickness = 4
  /\ \E j \in 1..Len(ops) :
        /\ ops[j].kind = "line" /\ ops[j].start = 0 /\ ops[j].end = 17
        /\ ops[j].color = <<255, 255, 255>>
  /\ \E j \in 1..Len(ops) :
        /\ ops[j].kind = "line" /\ ops[j].start = 9 /\ ops[j].end = 13
        /\ ops[j].color = <<100, 100, 100>>

\* px is an integer nearest to k * dim / Den
Nearest(px, k, dim) == 2 * Abs(px * Den - k * dim) <= Den
\* px is the integer part of k * dim / Den
Truncated(px, k, dim) == px * Den <= k * dim /\ k * dim < (px + 1) * Den

PixelsAre(P(_, _, _)) ==
  \A j \in 1..Len(ops) :
     LET op == ops[j]
         hand == hands[op.hand]
     IN /\ op.kind = "line" =>
             /\ P(op.p1[1], hand[op.start + 1].x, frame.w)
             /\ P(op.p1[2], hand[op.start + 1].y, frame.h)
             /\ P(op.p2[1], hand[op.end + 1].x, frame.w)
             /\ P(op.p2[2], hand[op.end + 1].y, frame.h)
        /\ op.kind = "circle" =>
             /\ P(op.p[1], hand[op.idx + 1].x, frame.w)
             /\ P(op.p[2], hand[op.idx + 1].y, frame.h)

(* C8 as stated: every pixel position of a line endpoint or a marker is    *)
(* round(x * W), round(y * H), the nearest integer.                        *)
C8_PixelRounded == pc = "show" => PixelsAre(Nearest)

(* C8 as amended: every pixel position of a line endpoint or a marker is   *)
(* int(x * W), int(y * H): the product truncated to its integer part, with *)
(* W and H the shape of the frame.                                         *)
C8_PixelTruncated == pc = "show" => PixelsAre(Truncated)

C8_Witness ==
  /\ pc = "show"
  /\ \E j \in 1..Len(ops) :
        /\ ops[j].kind = "circle"
        /\ hands[ops[j].hand][ops[j].idx + 1].x = 1
        /\ frame.w = 3
        /\ ops[j].p[1] = 0
        /\ ~Nearest(ops[j].p[1], 1, 3)

(* C9: the loop leaves running only when a read fails or the polled key is *)
(* 'q', and stopped is terminal; a failed read stops the loop at once; in  *)
(* every iteration with a successful read the steps mirror, detect,        *)
(* render, display, key poll occur once each in that order before the next *)
(* read.                                                                   *)
C9_LoopSteps ==
  [][ /\ (pc \in Running /\ pc' \notin Running) =>
            \/ pc = "read" /\ frame' = NoFrame
            \/ pc = "poll" /\ key' = KeyQ
      /\ pc \notin Running => pc' \notin Running
      /\ (pc = "read" /\ frame' = NoFrame) => pc' = "stopped"
      /\ (pc = "read" /\ frame' # NoFrame) => pc' = "flip"
      /\ pc = "flip" => pc' = "detect"
      /\ pc = "detect" => pc' = "render"
      /\ pc = "render" => pc' = "show"
      /\ pc = "show" => pc' = "poll"
      /\ (pc = "poll" /\ key' # KeyQ) => pc' = "read" ]_vars

(* C10: keys '1','2','3' set the scheme to vibrant, pastel, mono and leave *)
(* thickness alone; '+' and '-' change only thickness; any other key,      *)
(* including the no-key result, changes neither and leaves the loop        *)
(* running; nothing but the key poll, which follows the display of the     *)
(* current frame, changes scheme or thickness.                             *)
C10_KeyEffects ==
  [][ /\ pc = "poll" =>
            /\ key' = Key1 => color_scheme' = "vibrant" /\ line_thickness' = line_thickness
            /\ key' = Key2 => color_scheme' = "pastel" /\ line_thickness' = line_thickness
            /\ key' = Key3 => color_scheme' = "mono" /\ line_thickness' = line_thickness
            /\ key' \in {KeyPlus, KeyMinus} => color_scheme' = color_scheme
            /\ key' = KeyPlus => line_thickness' = ClampedTo(line_thickness + 1)
            /\ key' = KeyMinus => line_thickness' = ClampedTo(line_thickness - 1)
            /\ key' \notin {Key1, Key2, Key3, KeyPlus, KeyMinus} =>
                  /\ color_scheme' = color_scheme
                  /\ line_thickness' = line_thickness
            /\ key' # KeyQ => pc' = "read"
      /\ (color_scheme' # color_scheme \/ line_thickness' # line_thickness) =>
            /\ pc = "poll" /\ pc' = "read"
            /\ ops = <<>> /\ ops' = <<>> ]_vars

C10_Witness ==
  /\ pc = "read" /\ key = Key2 /\ color_scheme = "pastel" /\ line_thickness = 4
  /\ call.op = "set_color_scheme" /\ call.from = "key"
====
